---- MODULE Spec2Model ----
(***************************************************************************)
(* A model of the simulated tape library robot: src/sim-tlr-hal.py (the    *)
(* Library, its devices, the task executor and the catch-all route) and    *)
(* src/handlers.py (the admission wrapper of the API handlers).            *)
(*                                                                         *)
(* Python values are modelled as strings where a field holds values of     *)
(* several types: None is "None", True is "True", False is "False".        *)
(***************************************************************************)
EXTENDS Integers, Sequences, FiniteSets, TLC

VARIABLES
    running,      \* Library.running
    task,         \* Library.task: the current task, <<verb, device name>>, or NoTask
    tasks,        \* Library.tasks: the deque of queued tasks
    last_error,   \* Library.last_error
    tape,         \* BaseSlot.tape of every device, by device name
    inventory,    \* Library.inventory: type -> name -> value
    picker_x,     \* pickers["p"].x
    picker_y,     \* pickers["p"].y
    self_x,       \* Library._x
    self_y,       \* Library._y
    config,       \* Library.config (a dict)
    alive,        \* the sim_runner task is still looping
    last,         \* the step just taken: op, its name ("move" for a tick), and
                  \* out, for a request <<>> or the {type, reason} of its
                  \* error, for a tick the branch of move and the task stepped
    sole,         \* the only request made so far, when there is exactly one
    count         \* the requests counted so far against the model's bound

vars == <<running, task, tasks, last_error, tape, inventory, picker_x, picker_y,
          self_x, self_y, config, alive, last, sole, count>>

libvars == <<running, task, tasks, last_error, tape, inventory, picker_x, picker_y,
             self_x, self_y, config>>

None == "None"
PyTrue == "True"
PyFalse == "False"
NoTask == <<>>

(***************************************************************************)
(* Bounds of the model.                                                    *)
(***************************************************************************)
\* Spec follows the library through at most this many accepted requests that
\* queue tasks (load, unload, transfer, scan, park), with any number of lock
\* and unlock requests and of ticks between them.
MaxRequests == 2

\* SpecApi follows the library through at most this many requests of any
\* kind, well formed or not.
MaxApiRequests == 2

\* SpecClose: the accepted requests that queue tasks before the closing one
MaxRequestsBeforeClose == 1

\* SpecDeep follows the library through at most this many accepted loads and
\* unloads.
MaxDeepRequests == 3

(***************************************************************************)
(* Topology: Library.setup and the device classes.                         *)
(***************************************************************************)
NumDrives == 2
SlotColumns == 11
SlotRows == 16
StartTapes == 7
XMax == 80
YMax == 50

\* "{:02d}".format(n)
TwoDigits(n) == IF n < 10 THEN "0" \o ToString(n) ELSE ToString(n)

\* BaseSlot._name for the devices that are not the picker
DeviceName(prefix, column, row) == prefix \o TwoDigits(column) \o TwoDigits(row)

\* The slots of the library that the model keeps: the code builds
\* SlotColumns x SlotRows of them; a request of the model only ever names
\* the ones of ModelColumns x ModelRows, and the others never change.
ModelColumns == {0}
ModelRows == {0, 1}

\* Slot(sx, sy), with the tape Library.setup puts in the first StartTapes slots
SlotObject(sx, sy) ==
    LET index == sx * SlotRows + sy
    IN  [name |-> DeviceName("s", sx, sy),
         type |-> "slot",
         x |-> 16 + sx * 6,
         y |-> 2 + sy * 3,
         tape |-> IF index < StartTapes
                  THEN "tape" \o ToString(StartTapes - 1 - index)
                  ELSE None]

\* Drive(0, dd)
DriveObject(dd) ==
    [name |-> DeviceName("d", 0, dd),
     type |-> "drive",
     x |-> 6,
     y |-> 3 + dd * 6,
     tape |-> None]

\* Picker(0, 0)
PickerObject ==
    [name |-> "picker", type |-> "picker", x |-> 10, y |-> 10, tape |-> None]

SlotObjects ==
    {SlotObject(sx, sy) : sx \in ModelColumns \cap (0 .. SlotColumns - 1),
                          sy \in ModelRows \cap (0 .. SlotRows - 1)}
DriveObjects == {DriveObject(dd) : dd \in 0 .. NumDrives - 1}

\* Library.slots, Library.drives, Library.access_slots, Library.pickers
slots == [n \in {o.name : o \in SlotObjects} |-> CHOOSE o \in SlotObjects : o.name = n]
drives == [n \in {o.name : o \in DriveObjects} |-> CHOOSE o \in DriveObjects : o.name = n]
access_slots == <<>>
pickers == [p |-> PickerObject]

DeviceNames == DOMAIN slots \cup DOMAIN drives \cup {"picker"}

\* the device object of a name (names are unique over the kinds)
Device(n) ==
    IF n \in DOMAIN slots THEN slots[n]
    ELSE IF n \in DOMAIN drives THEN drives[n]
    ELSE pickers["p"]

Tapes == {Device(n).tape : n \in DeviceNames} \ {None}

(***************************************************************************)
(* The library's state as one record, so that a method is a function from  *)
(* the state to the state it leaves.                                       *)
(***************************************************************************)
Lib ==
    [running |-> running, task |-> task, tasks |-> tasks,
     last_error |-> last_error, tape |-> tape, inventory |-> inventory,
     picker_x |-> picker_x, picker_y |-> picker_y,
     self_x |-> self_x, self_y |-> self_y, config |-> config]

Store(s) ==
    /\ running' = s.running
    /\ task' = s.task
    /\ tasks' = s.tasks
    /\ last_error' = s.last_error
    /\ tape' = s.tape
    /\ inventory' = s.inventory
    /\ picker_x' = s.picker_x
    /\ picker_y' = s.picker_y
    /\ self_x' = s.self_x
    /\ self_y' = s.self_y
    /\ config' = s.config

\* Library.__init__ followed by Library.setup
InitLib ==
    [running |-> TRUE,
     task |-> NoTask,
     tasks |-> <<>>,
     last_error |-> <<>>,
     tape |-> [n \in DeviceNames |-> Device(n).tape],
     inventory |-> [picker |-> <<>>,
                    drive |-> [n \in DOMAIN drives |-> None],
                    slot |-> [n \in DOMAIN slots |-> None]],
     picker_x |-> PickerObject.x,
     picker_y |-> PickerObject.y,
     self_x |-> 30,
     self_y |-> 30,
     config |-> <<>>]

\* d[k] = v on a Python dict
DictSet(d, k, v) == [x \in DOMAIN d \cup {k} |-> IF x = k THEN v ELSE d[x]]

(***************************************************************************)
(* Devices: BaseSlot.scan, BaseSlot.eject, BaseSlot.enter, on the tape the *)
(* device holds.  raised is the LibraryError's message, or <<>>.           *)
(***************************************************************************)
BaseSlot_scan(name, held) == held

\* BaseSlot.eject without its check of self.tape (mutation of BaseSlot_eject)
BaseSlot_eject_unchecked(name, held) ==
    [raised |-> <<>>, tape |-> None, result |-> held]

BaseSlot_eject(name, held) ==
    IF held = None
    THEN [raised |-> <<name, "is empty">>, tape |-> held, result |-> None]
    ELSE [raised |-> <<>>, tape |-> None, result |-> held]

\* BaseSlot.enter that does not keep the tape (mutation of BaseSlot_enter)
BaseSlot_enter_drops(name, held, new) ==
    IF held # None
    THEN [raised |-> <<name, "is not empty">>, tape |-> held, result |-> None]
    ELSE [raised |-> <<>>, tape |-> None, result |-> None]

BaseSlot_enter(name, held, new) ==
    IF held # None
    THEN [raised |-> <<name, "is not empty">>, tape |-> held, result |-> None]
    ELSE [raised |-> <<>>, tape |-> new, result |-> new]

(***************************************************************************)
(* The tasks of the executor.  Each takes the library's state and the name *)
(* of the task's device and gives done (what the method returns), raised   *)
(* (an exception leaves the method) and st (the state it leaves).          *)
(***************************************************************************)
\* math.copysign(1, delta) for delta # 0
CopySign(delta) == IF delta < 0 THEN -1 ELSE 1

\* the clamp of Library._x and Library._y to the bounding box
Clamp(v, max) == IF v < 0 THEN 0 ELSE IF v > max THEN max ELSE v

\* a str.__add__ that takes any operand (mutation of StrAddRaises)
StrAddAccepts(operand_type) == FALSE

\* "!! " + error: str.__add__ takes a str only, anything else is a TypeError
StrAddRaises(operand_type) == operand_type # "str"

\* task_stop without self.tasks.clear() (mutation of task_stop)
task_stop_keeps_tasks(s, device) ==
    [done |-> TRUE, raised |-> FALSE,
     st |-> [s EXCEPT !.running = FALSE, !.last_error = <<>>]]

task_stop(s, device) ==
    [done |-> TRUE, raised |-> FALSE,
     st |-> [s EXCEPT !.running = FALSE, !.last_error = <<>>, !.tasks = <<>>]]

\* task_goto stepping two units on x (mutation of task_goto)
task_goto_two_units(s, device) ==
    LET delta_x == s.picker_x - Device(device).x
        delta_y == s.picker_y - Device(device).y
        done == delta_x = 0 /\ delta_y = 0
        s1 == IF delta_x # 0
              THEN [s EXCEPT !.self_x = Clamp(s.picker_x, XMax),
                             !.picker_x = s.picker_x - 2 * CopySign(delta_x)]
              ELSE s
        s2 == IF delta_y # 0
              THEN [s1 EXCEPT !.self_y = Clamp(s.picker_y, YMax),
                              !.picker_y = s.picker_y - CopySign(delta_y)]
              ELSE s1
    IN  [done |-> done, raised |-> FALSE,
         st |-> IF done THEN [s2 EXCEPT !.task = NoTask] ELSE s2]

\* task_goto with elif for the y axis: x first, y only when x matches
\* (mutation of task_goto)
task_goto_one_axis(s, device) ==
    LET delta_x == s.picker_x - Device(device).x
        delta_y == s.picker_y - Device(device).y
        done == delta_x = 0 /\ delta_y = 0
        s1 == IF delta_x # 0
              THEN [s EXCEPT !.self_x = Clamp(s.picker_x, XMax),
                             !.picker_x = s.picker_x - CopySign(delta_x)]
              ELSE IF delta_y # 0
              THEN [s EXCEPT !.self_y = Clamp(s.picker_y, YMax),
                             !.picker_y = s.picker_y - CopySign(delta_y)]
              ELSE s
    IN  [done |-> done, raised |-> FALSE,
         st |-> IF done THEN [s1 EXCEPT !.task = NoTask] ELSE s1]

task_goto(s, device) ==
    LET delta_x == s.picker_x - Device(device).x
        delta_y == s.picker_y - Device(device).y
        done == delta_x = 0 /\ delta_y = 0
        s1 == IF delta_x # 0
              THEN [s EXCEPT !.self_x = Clamp(s.picker_x, XMax),
                             !.picker_x = s.picker_x - CopySign(delta_x)]
              ELSE s
        s2 == IF delta_y # 0
              THEN [s1 EXCEPT !.self_y = Clamp(s.picker_y, YMax),
                              !.picker_y = s.picker_y - CopySign(delta_y)]
              ELSE s1
    IN  [done |-> done, raised |-> FALSE,
         st |-> IF done THEN [s2 EXCEPT !.task = NoTask] ELSE s2]

task_scan(s, device) ==
    LET held == BaseSlot_scan(device, s.tape[device])
    IN  [done |-> TRUE, raised |-> FALSE,
         st |-> [s EXCEPT !.last_error = <<"device", device, "has tape", held>>,
                          !.inventory["slot"] = DictSet(@, device, held)]]

\* The except LibraryError clause of task_eject and task_enter: last_error
\* is set, then the argument of logging.error is evaluated, and only when
\* that does not raise is the deque cleared and False returned.
on_library_error(s, error) ==
    LET s1 == [s EXCEPT !.last_error = error]
    IN  IF StrAddRaises("LibraryError")
        THEN [done |-> FALSE, raised |-> TRUE, st |-> s1]
        ELSE [done |-> FALSE, raised |-> FALSE, st |-> [s1 EXCEPT !.tasks = <<>>]]

\* task_eject leaving the tape in the device it was taken from (mutation of
\* task_eject)
task_eject_keeps_tape(s, device) ==
    LET out == BaseSlot_eject(device, s.tape[device])
        into == BaseSlot_enter("picker", s.tape["picker"], out.result)
        s2 == [s EXCEPT !.tape["picker"] = into.tape]
    IN  IF out.raised # <<>> THEN on_library_error(s, out.raised)
        ELSE IF into.raised # <<>> THEN on_library_error(s, into.raised)
        ELSE [done |-> TRUE, raised |-> FALSE,
              st |-> [s2 EXCEPT
                        !.inventory[Device(device).type] = DictSet(@, device, PyFalse),
                        !.inventory["picker"] = DictSet(@, "picker", PyTrue)]]

task_eject(s, device) ==
    LET out == BaseSlot_eject(device, s.tape[device])
        s1 == [s EXCEPT !.tape[device] = out.tape]
        into == BaseSlot_enter("picker", s1.tape["picker"], out.result)
        s2 == [s1 EXCEPT !.tape["picker"] = into.tape]
    IN  IF out.raised # <<>> THEN on_library_error(s, out.raised)
        ELSE IF into.raised # <<>> THEN on_library_error(s1, into.raised)
        ELSE [done |-> TRUE, raised |-> FALSE,
              st |-> [s2 EXCEPT
                        !.inventory[Device(device).type] = DictSet(@, device, PyFalse),
                        !.inventory["picker"] = DictSet(@, "picker", PyTrue)]]

\* task_enter without its update of the device's inventory entry (mutation
\* of task_enter)
task_enter_skips_inventory(s, device) ==
    LET out == BaseSlot_eject("picker", s.tape["picker"])
        s1 == [s EXCEPT !.tape["picker"] = out.tape]
        into == BaseSlot_enter(device, s1.tape[device], out.result)
        s2 == [s1 EXCEPT !.tape[device] = into.tape]
    IN  IF out.raised # <<>> THEN on_library_error(s, out.raised)
        ELSE IF into.raised # <<>> THEN on_library_error(s1, into.raised)
        ELSE [done |-> TRUE, raised |-> FALSE,
              st |-> [s2 EXCEPT !.inventory["picker"] = DictSet(@, "picker", PyFalse)]]

task_enter(s, device) ==
    LET out == BaseSlot_eject("picker", s.tape["picker"])
        s1 == [s EXCEPT !.tape["picker"] = out.tape]
        into == BaseSlot_enter(device, s1.tape[device], out.result)
        s2 == [s1 EXCEPT !.tape[device] = into.tape]
    IN  IF out.raised # <<>> THEN on_library_error(s, out.raised)
        ELSE IF into.raised # <<>> THEN on_library_error(s1, into.raised)
        ELSE [done |-> TRUE, raised |-> FALSE,
              st |-> [s2 EXCEPT
                        !.inventory[Device(device).type] = DictSet(@, device, PyTrue),
                        !.inventory["picker"] = DictSet(@, "picker", PyFalse)]]

\* getattr(self, "task_" + self.task[0])(self.task[1])
task_call(s, verb, device) ==
    CASE verb = "goto" -> task_goto(s, device)
      [] verb = "eject" -> task_eject(s, device)
      [] verb = "enter" -> task_enter(s, device)
      [] verb = "scan" -> task_scan(s, device)
      [] verb = "stop" -> task_stop(s, device)

\* Library.move without its test of self.running (mutation of move)
move_ignores_running(s) ==
    IF DOMAIN pickers # {}
    THEN IF s.task # NoTask
         THEN LET r == task_call(s, s.task[1], s.task[2])
              IN  IF r.raised THEN [raised |-> TRUE, st |-> r.st, what |-> "raised"]
                  ELSE IF r.done
                  THEN [raised |-> FALSE, st |-> [r.st EXCEPT !.task = NoTask],
                        what |-> "done"]
                  ELSE [raised |-> FALSE, st |-> r.st, what |-> "notdone"]
         ELSE IF s.tasks # <<>>
         THEN [raised |-> FALSE,
               st |-> [s EXCEPT !.task = Head(s.tasks), !.tasks = Tail(s.tasks)],
               what |-> "popleft"]
         ELSE [raised |-> FALSE, st |-> s, what |-> "idle"]
    ELSE [raised |-> FALSE, st |-> s, what |-> "stopped"]

\* Library.move: raised when the task's exception leaves move, st the state
\* left, what the branch taken
move(s) ==
    IF s.running /\ DOMAIN pickers # {}
    THEN IF s.task # NoTask
         THEN LET r == task_call(s, s.task[1], s.task[2])
              IN  IF r.raised THEN [raised |-> TRUE, st |-> r.st, what |-> "raised"]
                  ELSE IF r.done
                  THEN [raised |-> FALSE, st |-> [r.st EXCEPT !.task = NoTask],
                        what |-> "done"]
                  ELSE [raised |-> FALSE, st |-> r.st, what |-> "notdone"]
         ELSE IF s.tasks # <<>>
         THEN [raised |-> FALSE,
               st |-> [s EXCEPT !.task = Head(s.tasks), !.tasks = Tail(s.tasks)],
               what |-> "popleft"]
         ELSE [raised |-> FALSE, st |-> s, what |-> "idle"]
    ELSE [raised |-> FALSE, st |-> s, what |-> "stopped"]

(***************************************************************************)
(* The API actions of the Library.  Each takes the library's state and the *)
(* request's query (a function from parameter names to strings) and gives  *)
(* exc (<<>>, or the {type, reason} of the HTTPMisdirectedRequest raised,   *)
(* or <<"TypeError">>) and st (the state it leaves).                        *)
(***************************************************************************)
Ok(s) == [exc |-> <<>>, st |-> s]
Raise(s, exc) == [exc |-> exc, st |-> s]

\* the tasks put at the head of the deque (mutation of Append_all)
Append_all_at_head(s, new) == [s EXCEPT !.tasks = new \o s.tasks]

\* deque.append of each task of a sequence, in order
Append_all(s, new) == [s EXCEPT !.tasks = s.tasks \o new]

\* Library.get_drive_obj: exc and the drive's name
get_drive_obj(drive) ==
    IF drive = ""
    THEN [exc |-> <<"drive", "notspecified">>, obj |-> None]
    ELSE IF drive \notin DOMAIN drives
    THEN [exc |-> <<"drive", "nosuch">>, obj |-> None]
    ELSE [exc |-> <<>>, obj |-> drives[drive].name]

\* Library.get_slot_obj: exc and the slot's name
get_slot_obj(slot) ==
    IF slot = ""
    THEN [exc |-> <<"slot", "notspecifiec">>, obj |-> None]
    ELSE IF slot \notin DOMAIN slots
    THEN [exc |-> <<"slot", "nosuch">>, obj |-> None]
    ELSE [exc |-> <<>>, obj |-> slots[slot].name]

action_scan(s, q) ==
    LET slot_class == get_slot_obj(q["slot"])
    IN  IF slot_class.exc # <<>> THEN Raise(s, slot_class.exc)
        ELSE Ok(Append_all(s, << <<"goto", slot_class.obj>>, <<"scan", slot_class.obj>> >>))

\* action_load appending the slot's tasks before it resolves the drive
\* (mutation of action_load)
action_load_partial(s, q) ==
    LET slot_class == get_slot_obj(q["slot"])
        drive_class == get_drive_obj(q["drive"])
        s1 == Append_all(s, << <<"goto", slot_class.obj>>, <<"eject", slot_class.obj>> >>)
    IN  IF slot_class.exc # <<>> THEN Raise(s, slot_class.exc)
        ELSE IF drive_class.exc # <<>> THEN Raise(s1, drive_class.exc)
        ELSE Ok(Append_all(s1, << <<"goto", drive_class.obj>>, <<"enter", drive_class.obj>> >>))

action_load(s, q) ==
    LET slot_class == get_slot_obj(q["slot"])
        drive_class == get_drive_obj(q["drive"])
    IN  IF slot_class.exc # <<>> THEN Raise(s, slot_class.exc)
        ELSE IF drive_class.exc # <<>> THEN Raise(s, drive_class.exc)
        ELSE Ok(Append_all(s, << <<"goto", slot_class.obj>>, <<"eject", slot_class.obj>>,
                                 <<"goto", drive_class.obj>>, <<"enter", drive_class.obj>> >>))

action_unload(s, q) ==
    LET slot_class == get_slot_obj(q["slot"])
        drive_class == get_drive_obj(q["drive"])
    IN  IF slot_class.exc # <<>> THEN Raise(s, slot_class.exc)
        ELSE IF drive_class.exc # <<>> THEN Raise(s, drive_class.exc)
        ELSE Ok(Append_all(s, << <<"goto", drive_class.obj>>, <<"eject", drive_class.obj>>,
                                 <<"goto", slot_class.obj>>, <<"enter", slot_class.obj>> >>))

action_transfer(s, q) ==
    LET slot_class == get_slot_obj(q["source"])
        target_class == get_slot_obj(q["target"])
    IN  IF slot_class.exc # <<>> THEN Raise(s, slot_class.exc)
        ELSE IF target_class.exc # <<>> THEN Raise(s, target_class.exc)
        ELSE Ok(Append_all(s, << <<"goto", slot_class.obj>>, <<"eject", slot_class.obj>>,
                                 <<"goto", target_class.obj>>, <<"enter", target_class.obj>> >>))

action_inventory(s, q) == Ok(s)

action_sensors(s, q) == Ok(s)

\* the reply_payload of Library.action_state
state_reply(s) == [locked |-> ~s.running, busy |-> s.tasks # <<>>]

action_state(s, q) == Ok(s)

\* self.config.update(kwargs)
action_config(s, q) ==
    Ok([s EXCEPT !.config = [k \in DOMAIN @ \cup DOMAIN q |->
                               IF k \in DOMAIN q THEN q[k] ELSE @[k]]])

action_lock(s, q) == Ok(task_stop(s, None).st)

action_unlock(s, q) == Ok([s EXCEPT !.running = TRUE])

\* action_park without self.task = None (mutation of action_park)
action_park_keeps_task(s, q) ==
    Ok([s EXCEPT !.tasks = << <<"goto", slots["s0000"].name>>,
                              <<"stop", pickers["p"].name>> >>])

\* action_park that queues no stop task (mutation of action_park)
action_park_without_stop(s, q) ==
    Ok([s EXCEPT !.task = NoTask,
                 !.tasks = << <<"goto", slots["s0000"].name>> >>])

\* action_park without its clearing of the task queue (mutation of
\* action_park)
action_park_keeps_queue(s, q) ==
    Ok([s EXCEPT !.task = NoTask,
                 !.tasks = @ \o << <<"goto", slots["s0000"].name>>,
                                   <<"stop", pickers["p"].name>> >>])

action_park(s, q) ==
    Ok([s EXCEPT !.task = NoTask,
                 !.tasks = << <<"goto", slots["s0000"].name>>,
                              <<"stop", pickers["p"].name>> >>])

\* the names n for which the Library has a method action_n
ActionNames ==
    {"scan", "inventory", "load", "unload", "transfer", "sensors", "state",
     "config", "lock", "unlock", "park"}

\* the parameters the method action_name declares (config takes **kwargs)
action_params(name) ==
    CASE name \in {"load", "unload"} -> {"slot", "drive"}
      [] name = "transfer" -> {"source", "target"}
      [] name = "scan" -> {"slot"}
      [] OTHER -> {}

\* getattr(library, "action_" + name)(**request.query): the keywords are
\* bound to the method's parameters first, and a keyword the method does not
\* declare, or a parameter with no keyword, is a TypeError
action_call(s, name, q) ==
    IF name # "config" /\ DOMAIN q # action_params(name)
    THEN Raise(s, <<"TypeError">>)
    ELSE CASE name = "scan" -> action_scan(s, q)
           [] name = "inventory" -> action_inventory(s, q)
           [] name = "load" -> action_load(s, q)
           [] name = "unload" -> action_unload(s, q)
           [] name = "transfer" -> action_transfer(s, q)
           [] name = "sensors" -> action_sensors(s, q)
           [] name = "state" -> action_state(s, q)
           [] name = "config" -> action_config(s, q)
           [] name = "lock" -> action_lock(s, q)
           [] name = "unlock" -> action_unlock(s, q)
           [] name = "park" -> action_park(s, q)

\* Library.check_queue_max_depth_reached
check_queue_max_depth_reached(s) == FALSE

(***************************************************************************)
(* src/handlers.py: the handlers and their admission wrapper.  err is <<>>  *)
(* for a reply, or the {type, reason} of the error raised.                 *)
(***************************************************************************)
\* the required_params each handler passes, in the handler's order
required_params(name) ==
    CASE name = "load" -> <<"slot", "drive">>
      [] name = "unload" -> <<"drive", "slot">>
      [] name = "transfer" -> <<"source", "target">>
      [] name = "scan" -> <<"slot">>
      [] OTHER -> <<>>

\* the skip_lock_check each handler passes
skip_lock_check(name) ==
    name \in {"inventory", "sensors", "config", "state", "lock", "unlock"}

\* the "Check parameters" loop: the error of the first required parameter
\* that is absent or empty, or <<>>
check_parameters(required, q) ==
    LET bad == {i \in 1 .. Len(required) :
                  required[i] \notin DOMAIN q \/ q[required[i]] = ""}
        first == CHOOSE i \in bad : \A j \in bad : i <= j
    IN  IF bad = {} THEN <<>>
        ELSE IF required[first] \in DOMAIN q THEN <<"parameter", "empty">>
        ELSE <<"parameter", "undefined">>

\* the wrapper with the lock check ahead of the parameter check (mutation of
\* tape_library_handler_wrapper)
wrapper_lock_first(s, action_name, required, skip_lock, q) ==
    IF ~s.running /\ ~skip_lock
    THEN [err |-> <<"lock", "locked">>, st |-> s]
    ELSE IF check_parameters(required, q) # <<>>
    THEN [err |-> check_parameters(required, q), st |-> s]
    ELSE IF check_queue_max_depth_reached(s)
    THEN [err |-> <<"taskqueue", "full">>, st |-> s]
    ELSE IF action_name \in ActionNames
    THEN LET r == action_call(s, action_name, q)
         IN  IF r.exc = <<"TypeError">>
             THEN [err |-> <<"server", "internal">>, st |-> r.st]
             ELSE [err |-> r.exc, st |-> r.st]
    ELSE [err |-> <<"method", "nosuch">>, st |-> s]

tape_library_handler_wrapper(s, action_name, required, skip_lock, q) ==
    IF check_parameters(required, q) # <<>>
    THEN [err |-> check_parameters(required, q), st |-> s]
    ELSE IF ~s.running /\ ~skip_lock
    THEN [err |-> <<"lock", "locked">>, st |-> s]
    ELSE IF check_queue_max_depth_reached(s)
    THEN [err |-> <<"taskqueue", "full">>, st |-> s]
    ELSE IF action_name \in ActionNames
    THEN LET r == action_call(s, action_name, q)
         IN  IF r.exc = <<"TypeError">>
             THEN [err |-> <<"server", "internal">>, st |-> r.st]
             ELSE [err |-> r.exc, st |-> r.st]
    ELSE [err |-> <<"method", "nosuch">>, st |-> s]

\* load_handle, unload_handle, ..., unlock_handle
api_handle(s, name, q) ==
    tape_library_handler_wrapper(s, name, required_params(name), skip_lock_check(name), q)

\* handle, the handler of the catch-all route "/{name}": an exception that
\* leaves it is aiohttp's 500 reply
handle(s, name, q) ==
    IF name \in ActionNames
    THEN LET r == action_call(s, name, q)
         IN  IF r.exc = <<"TypeError">>
             THEN [err |-> <<"server", "unhandled">>, st |-> r.st]
             ELSE [err |-> r.exc, st |-> r.st]
    ELSE [err |-> <<>>, st |-> s]

(***************************************************************************)
(* The requests of the model.                                              *)
(***************************************************************************)
\* identifiers a request may give for a slot: two slots that hold a tape at
\* startup; and besides them an access slot (the library has none) and the
\* empty string
SlotIds == {"s0000", "s0001"}
AnySlotIds == SlotIds \cup {"a0000", ""}

\* identifiers a request may give for a drive: a drive; and besides it a
\* name no drive has and the empty string
DriveIds == {"d0001"}
AnyDriveIds == DriveIds \cup {"d0100", ""}

\* the queries that give every parameter of the action, each a device of
\* the model
QueriesOf ==
    [name \in ActionNames |->
       {q \in [action_params(name) -> SlotIds \cup DriveIds] :
          \A k \in DOMAIN q : q[k] \in (IF k = "drive" THEN DriveIds ELSE SlotIds)}]

Queries(name) == QueriesOf[name]

\* the queries of any shape: each parameter of the action absent, or present
\* with any identifier; for an action with no parameter, no keyword or one
\* keyword
AnyQueriesOf ==
    [name \in ActionNames \cup {"favicon.ico"} |->
       IF action_params(name) = {} THEN {<<>>, [slot |-> "s0000"]}
       ELSE UNION {{q \in [given -> AnySlotIds \cup AnyDriveIds] :
                      \A k \in given :
                        q[k] \in (IF k = "drive" THEN AnyDriveIds ELSE AnySlotIds)} :
                   given \in SUBSET action_params(name)}]

AnyQueries(name) == AnyQueriesOf[name]

\* the actions that queue tasks
QueueingNames == {"load", "unload", "transfer", "scan", "park"}

\* the names a request to the catch-all route may carry: the actions, and a
\* name the Library has no action for
RouteNames == ActionNames \cup {"favicon.ico"}

Fresh == [via |-> "none", name |-> "none", q |-> <<>>]
Many == [via |-> "many", name |-> "many", q |-> <<>>]

(***************************************************************************)
(* The steps.                                                              *)
(***************************************************************************)
Init ==
    /\ running = InitLib.running
    /\ task = InitLib.task
    /\ tasks = InitLib.tasks
    /\ last_error = InitLib.last_error
    /\ tape = InitLib.tape
    /\ inventory = InitLib.inventory
    /\ picker_x = InitLib.picker_x
    /\ picker_y = InitLib.picker_y
    /\ self_x = InitLib.self_x
    /\ self_y = InitLib.self_y
    /\ config = InitLib.config
    /\ alive = TRUE
    /\ last = [op |-> "init", out |-> <<>>]
    /\ sole = Fresh
    /\ count = 0

\* what a request does: through a handler of src/handlers.py (via "api") or
\* through the catch-all route (via "route")
Serve(via, name, q) ==
    IF via = "api" THEN api_handle(Lib, name, q) ELSE handle(Lib, name, q)

\* One request
Request(via, name, q) ==
    /\ Store(Serve(via, name, q).st)
    /\ alive' = alive
    /\ last' = [op |-> name, out |-> Serve(via, name, q).err]
    /\ sole' = IF sole = Fresh THEN [via |-> via, name |-> name, q |-> q] ELSE Many

\* a well-formed request, counted when it queues tasks
Api(name) ==
    \E q \in Queries(name) :
       /\ Request("api", name, q)
       /\ count' = IF name \in QueueingNames /\ Serve("api", name, q).err = <<>>
                   THEN count + 1 ELSE count
       /\ count' <= MaxRequests

Load == Api("load")
Unload == Api("unload")
Transfer == Api("transfer")
Scan == Api("scan")
Park == Api("park")
Lock == Api("lock")
Unlock == Api("unlock")

\* a well-formed request that the router resolves to the catch-all route
Route ==
    \E name \in QueueingNames \cup {"lock", "unlock"} : \E q \in Queries(name) :
       /\ Request("route", name, q)
       /\ count' = IF name \in QueueingNames /\ Serve("route", name, q).err = <<>>
                   THEN count + 1 ELSE count
       /\ count' <= MaxRequests

\* sim_runner: one turn of its loop; an exception that leaves move ends the loop
Tick ==
    /\ alive
    /\ Store(move(Lib).st)
    /\ alive' = ~move(Lib).raised
    /\ last' = [op |-> "move", out |-> <<move(Lib).what>> \o task]
    /\ UNCHANGED <<sole, count>>

Next ==
    \/ Load
    \/ Unload
    \/ Transfer
    \/ Scan
    \/ Park
    \/ Lock
    \/ Unlock
    \/ Route
    \/ Tick

Spec == Init /\ [][Next]_vars

\* a request of any kind and shape through a handler of src/handlers.py
AnyApi ==
    \E name \in ActionNames : \E q \in AnyQueries(name) :
       /\ count < MaxApiRequests
       /\ Request("api", name, q)
       /\ count' = count + 1

\* a request of any kind and shape through the catch-all route
AnyRoute ==
    \E name \in RouteNames : \E q \in AnyQueries(name) :
       /\ count < MaxApiRequests
       /\ Request("route", name, q)
       /\ count' = count + 1

NextApi ==
    \/ AnyApi
    \/ AnyRoute
    \/ Tick

SpecApi == Init /\ [][NextApi]_vars

(***************************************************************************)
(* SpecLoad: the library from startup when a load is the only request made *)
(* and ticks keep firing.  sim_runner loops for ever with a sleep between  *)
(* two moves, so a tick that can be taken is eventually taken.             *)
(***************************************************************************)
SoleLoad ==
    /\ sole = Fresh
    /\ \E via \in {"api", "route"} : \E q \in AnyQueries("load") :
          Request(via, "load", q)
    /\ UNCHANGED count

NextLoad ==
    \/ SoleLoad
    \/ Tick

SpecLoad == Init /\ [][NextLoad]_vars /\ WF_vars(Tick)

(***************************************************************************)
(* SpecDevice: the devices on their own.  Each tape starts in at most one  *)
(* device, and the steps are eject on any device and enter, on any device, *)
(* of a tape that no device holds.  last keeps the call, what it raised    *)
(* and returned, the tapes the devices held before it, and the same of the *)
(* call before it.                                                         *)
(***************************************************************************)
Call(l) ==
    [op |-> l.op, device |-> l.device, arg |-> l.arg, raised |-> l.raised,
     result |-> l.result, before |-> l.before]

Held(held) == {held[n] : n \in DOMAIN held} \ {None}

InitDevice ==
    /\ tape \in {held \in [DeviceNames -> Tapes \cup {None}] :
                   \A m, n \in DeviceNames : m # n /\ held[m] # None => held[m] # held[n]}
    /\ running = InitLib.running
    /\ task = InitLib.task
    /\ tasks = InitLib.tasks
    /\ last_error = InitLib.last_error
    /\ inventory = InitLib.inventory
    /\ picker_x = InitLib.picker_x
    /\ picker_y = InitLib.picker_y
    /\ self_x = InitLib.self_x
    /\ self_y = InitLib.self_y
    /\ config = InitLib.config
    /\ alive = TRUE
    /\ last = [op |-> "init", device |-> None, arg |-> None, raised |-> <<>>,
               result |-> None, before |-> tape, prior |-> <<>>]
    /\ sole = Fresh
    /\ count = 0

DeviceFrame ==
    UNCHANGED <<running, task, tasks, last_error, inventory, picker_x, picker_y,
                self_x, self_y, config, alive, sole, count>>

DeviceEject ==
    \E n \in DeviceNames :
       LET out == BaseSlot_eject(n, tape[n])
       IN  /\ tape' = [tape EXCEPT ![n] = out.tape]
           /\ last' = [op |-> "eject", device |-> n, arg |-> None,
                       raised |-> out.raised, result |-> out.result, before |-> tape,
                       prior |-> Call(last)]
           /\ DeviceFrame

DeviceEnter ==
    \E n \in DeviceNames : \E t \in Tapes \ Held(tape) :
       LET out == BaseSlot_enter(n, tape[n], t)
       IN  /\ tape' = [tape EXCEPT ![n] = out.tape]
           /\ last' = [op |-> "enter", device |-> n, arg |-> t,
                       raised |-> out.raised, result |-> out.result, before |-> tape,
                       prior |-> Call(last)]
           /\ DeviceFrame

NextDevice ==
    \/ DeviceEject
    \/ DeviceEnter

SpecDevice == InitDevice /\ [][NextDevice]_vars

(***************************************************************************)
(* SpecClose: the library when the requests come to an end.  After any     *)
(* requests of Spec, the caller closes with a park, or with a lock and     *)
(* later an unlock, and makes no request after that; sim_runner keeps      *)
(* looping.  sole records how far the closing has come.                    *)
(***************************************************************************)
Closing(name) == [via |-> "api", name |-> name, q |-> <<"closing">>]

Closed == sole \in {Closing("park"), Closing("lock"), Closing("unlock")}

\* the closing request, served by its handler and accepted
Close(name) ==
    /\ api_handle(Lib, name, <<>>).err = <<>>
    /\ Store(api_handle(Lib, name, <<>>).st)
    /\ alive' = alive
    /\ last' = [op |-> name, out |-> <<>>]
    /\ sole' = Closing(name)
    /\ UNCHANGED count

Before ==
    /\ ~Closed
    /\ Load \/ Unload \/ Transfer \/ Scan \/ Lock \/ Unlock
    /\ count' <= MaxRequestsBeforeClose

ClosePark ==
    /\ ~Closed
    /\ Close("park")

CloseLock ==
    /\ ~Closed
    /\ Close("lock")

CloseUnlock ==
    /\ sole = Closing("lock")
    /\ Close("unlock")

NextClose ==
    \/ Before
    \/ ClosePark
    \/ CloseLock
    \/ CloseUnlock
    \/ Tick

SpecClose == Init /\ [][NextClose]_vars /\ WF_vars(Tick)

(***************************************************************************)
(* SpecDeep: the library under loads, unloads, lock and unlock only, each  *)
(* served by its handler, through a longer run of accepted requests than   *)
(* Spec follows.                                                           *)
(***************************************************************************)
Deep(name) ==
    \E q \in Queries(name) :
       /\ Request("api", name, q)
       /\ count' = IF name \in QueueingNames /\ Serve("api", name, q).err = <<>>
                   THEN count + 1 ELSE count
       /\ count' <= MaxDeepRequests

DeepLoad == Deep("load")
DeepUnload == Deep("unload")
DeepLock == Deep("lock")
DeepUnlock == Deep("unlock")

NextDeep ==
    \/ DeepLoad
    \/ DeepUnload
    \/ DeepLock
    \/ DeepUnlock
    \/ Tick

SpecDeep == Init /\ [][NextDeep]_vars

(***************************************************************************)
(* SpecLast: the library when the last request is a load.  After any       *)
(* requests of Spec, the caller has a load accepted, of any slot into any  *)
(* drive, and makes no request after that; sim_runner keeps looping.  sole *)
(* records the last load.                                                  *)
(***************************************************************************)
LastLoadQueries == [{"slot", "drive"} -> DOMAIN slots \cup DOMAIN drives]

LastLoad(q) == [via |-> "last", name |-> "load", q |-> q]

LastLoaded == sole.via = "last"

BeforeLast ==
    /\ ~LastLoaded
    /\ Load \/ Unload \/ Transfer \/ Scan \/ Park \/ Lock \/ Unlock
    /\ count' <= MaxRequestsBeforeClose

LastLoadStep ==
    /\ ~LastLoaded
    /\ \E via \in {"api", "route"} : \E q \in LastLoadQueries :
          /\ q["slot"] \in DOMAIN slots
          /\ q["drive"] \in DOMAIN drives
          /\ Serve(via, "load", q).err = <<>>
          /\ Store(Serve(via, "load", q).st)
          /\ alive' = alive
          /\ last' = [op |-> "load", out |-> <<>>]
          /\ sole' = LastLoad(q)
          /\ UNCHANGED count

NextLast ==
    \/ BeforeLast
    \/ LastLoadStep
    \/ Tick

SpecLast == Init /\ [][NextLast]_vars /\ WF_vars(Tick)

(***************************************************************************)
(* SpecAfter: the library when the last request is a scan made after a     *)
(* failure.  After any requests of Spec, once an eject or enter step has   *)
(* failed, the caller has a scan of a slot accepted by the unlocked        *)
(* library and makes no request after that; sim_runner loops for as long   *)
(* as no exception has left it.  sole records the scan.                    *)
(***************************************************************************)
ScanAfter(S) == [via |-> "after", name |-> "scan", q |-> [slot |-> S]]

ScannedAfter == sole.via = "after"

BeforeAfter ==
    /\ ~ScannedAfter
    /\ Load \/ Unload \/ Transfer \/ Scan \/ Park \/ Lock \/ Unlock
    /\ count' <= MaxRequestsBeforeClose

ScanAfterFailure ==
    /\ ~ScannedAfter
    /\ last_error \in {<<n, "is empty">> : n \in DeviceNames}
                         \cup {<<n, "is not empty">> : n \in DeviceNames}
    /\ running
    /\ \E via \in {"api", "route"} : \E S \in DOMAIN slots :
          /\ Serve(via, "scan", [slot |-> S]).err = <<>>
          /\ Store(Serve(via, "scan", [slot |-> S]).st)
          /\ alive' = alive
          /\ last' = [op |-> "scan", out |-> <<>>]
          /\ sole' = ScanAfter(S)
          /\ UNCHANGED count

NextAfter ==
    \/ BeforeAfter
    \/ ScanAfterFailure
    \/ Tick

SpecAfter == Init /\ [][NextAfter]_vars /\ WF_vars(Tick)

(***************************************************************************)
(* What the observers read.                                                *)
(***************************************************************************)
\* InventoryView[n]: what the inventory says of a device ("None" is unknown,
\* "False" known-empty, "True" or a tape id known-occupied)
InventoryView(n) ==
    IF n \in DOMAIN inventory["slot"] THEN inventory["slot"][n]
    ELSE IF n \in DOMAIN inventory["drive"] THEN inventory["drive"][n]
    ELSE None

KnownEmpty(v) == v = PyFalse
KnownOccupied(v) == v \notin {None, PyFalse}
Known(v) == v # None

\* the step just taken was a tick whose eject or enter step raised
DomainFailure ==
    /\ last.op = "move"
    /\ last.out[1] = "raised"

\* the requests that are not exempt from the lock check
NonExempt == {"load", "unload", "transfer", "scan", "park"}

(***************************************************************************)
(* The claims.                                                             *)
(***************************************************************************)

\* C1: when an eject or enter step hits a domain failure, at the end of that
\* tick the task queue is empty and last_error holds the failure message,
\* whatever the queue held before.
C1_FailureClearsQueue ==
    DomainFailure =>
        /\ tasks = <<>>
        /\ last_error \in {<<last.out[3], "is empty">>, <<last.out[3], "is not empty">>,
                           <<"picker", "is empty">>, <<"picker", "is not empty">>}

\* C2: while running is false, a load, unload, transfer, scan or park request
\* is rejected with {lock, locked}, and it leaves the task queue, the current
\* task and all other library state as they were.
C2_LockedRejects ==
    [][(~running /\ last'.op \in NonExempt) =>
          (last'.out = <<"lock", "locked">> /\ UNCHANGED libvars)]_vars

\* C3: from every reachable state, immediately after lock() the state query
\* reports locked = true and the task queue is empty.
C3_LockLocksAndClears ==
    last.op = "lock" => (state_reply(Lib).locked /\ tasks = <<>>)

\* C3 witness: lock() has just been served while a task was in progress
C3_Witness ==
    /\ last.op = "lock"
    /\ task # NoTask
    /\ ~running

\* the request load(slot, drive) made through its handler
LoadRequest(slot, drive) ==
    [via |-> "api", name |-> "load", q |-> [slot |-> slot, drive |-> drive]]

\* when the load request r is the first request made it is accepted, and
\* when it stays the only one, eventually the inventory has its slot
\* known-empty and its drive known-occupied
LoadRunsToInventory(r) ==
    /\ []((sole = r /\ last.op = "load") => last.out = <<>>)
    /\ (sole = r) ~> (/\ KnownEmpty(InventoryView(r.q["slot"]))
                      /\ KnownOccupied(InventoryView(r.q["drive"])))

\* C4 as stated: against a fresh library, load("s0000", "d0100") is accepted,
\* and if ticks keep firing with no other request, eventually InventoryView
\* has s0000 known-empty and d0100 known-occupied.
C4_LoadD0100 == LoadRunsToInventory(LoadRequest("s0000", "d0100"))

\* C4 amended: the drives are d0000 and d0001.  Against a fresh library,
\* load("s0000", "d0001") is accepted, and if ticks keep firing with no other
\* request, eventually InventoryView has s0000 known-empty and d0001
\* known-occupied.
C4_LoadD0001 == LoadRunsToInventory(LoadRequest("s0000", "d0001"))

\* C4 witness: the load was the only request and the inventory has s0000
\* known-empty and d0001 known-occupied
C4_Witness ==
    /\ sole = LoadRequest("s0000", "d0001")
    /\ tape["d0001"] = "tape6"
    /\ KnownEmpty(InventoryView("s0000"))
    /\ KnownOccupied(InventoryView("d0001"))

\* C5: for every slot S, after a scan task on S has executed, InventoryView[S]
\* is known: known-occupied with the tape id when S holds a tape, known-empty
\* when S holds none.
C5_ScanRecordsKnown ==
    \A S \in DOMAIN slots :
       last = [op |-> "move", out |-> <<"done", "scan", S>>] =>
          InventoryView(S) = (IF tape[S] = None THEN PyFalse ELSE tape[S])

\* C6: InventoryView knowledge is monotonic: once InventoryView[L] is known,
\* no request and no tick sets it back to unknown.
C6_KnownStaysKnown ==
    [][\A L \in DeviceNames \ {"picker"} :
          Known(InventoryView(L)) => Known(InventoryView(L))']_vars

Abs(v) == IF v < 0 THEN -v ELSE v

\* v lies between a and b
Between(v, a, b) == (a <= v /\ v <= b) \/ (b <= v /\ v <= a)

\* C7: on every tick of a goto task the picker's x changes by at most one
\* unit and its y by at most one unit, and neither coordinate passes the
\* target's; when the goto completes (its step reports done and it leaves
\* the current-task slot) the picker's x and y equal the target's.
C7_GotoConverges ==
    [][\A d \in DeviceNames :
          (task = <<"goto", d>> /\ last'.op = "move") =>
             /\ Abs(picker_x' - picker_x) <= 1
             /\ Abs(picker_y' - picker_y) <= 1
             /\ Between(picker_x', picker_x, Device(d).x)
             /\ Between(picker_y', picker_y, Device(d).y)
             /\ (last'.out[1] = "done" =>
                   /\ task' = NoTask
                   /\ picker_x' = Device(d).x
                   /\ picker_y' = Device(d).y)
             /\ (task' = NoTask => last'.out[1] = "done")]_vars

\* C7 witness: a goto to s0000 has completed, with the picker there after a
\* move on both axes
C7_Witness ==
    /\ last = [op |-> "move", out |-> <<"done", "goto", "s0000">>]
    /\ task = NoTask
    /\ picker_x = Device("s0000").x
    /\ picker_y = Device("s0000").y
    /\ self_x # InitLib.self_x
    /\ self_y # InitLib.self_y

\* C8: eject on an empty location fails with "is empty" (EmptyLocation) and
\* enter on an occupied location fails with "is not empty"
\* (OccupiedLocation), and in both cases every location holds after the
\* failed call what it held before.
C8_IllegalCallsFail ==
    /\ (last.op = "eject" /\ last.before[last.device] = None) =>
          (last.raised = <<last.device, "is empty">> /\ tape = last.before)
    /\ (last.op = "enter" /\ last.before[last.device] # None) =>
          (last.raised = <<last.device, "is not empty">> /\ tape = last.before)

\* C8 witness: enter has just been called on a location that held a tape
C8_Witness ==
    /\ last.op = "enter"
    /\ last.before[last.device] # None
    /\ last.raised # <<>>

\* the call just made is enter(L, t) right after an eject(L) that returned t
RoundTrip ==
    /\ last.op = "enter"
    /\ last.prior.op = "eject"
    /\ last.prior.raised = <<>>
    /\ last.device = last.prior.device
    /\ last.arg = last.prior.result

\* C9: for every location L holding a tape t, eject(L) returning t followed
\* immediately by enter(L, t) succeeds and leaves every location holding
\* what it held before the eject.
C9_EjectEnterRoundTrip ==
    RoundTrip => (last.raised = <<>> /\ tape = last.prior.before)

\* C9 witness: a round trip on a drive
C9_Witness ==
    /\ RoundTrip
    /\ last.device \in DOMAIN drives
    /\ tape[last.device] = last.arg

\* a required parameter of the request is absent or empty
Malformed(name, q) ==
    \E i \in DOMAIN required_params(name) :
       required_params(name)[i] \notin DOMAIN q \/ q[required_params(name)[i]] = ""

\* the requests for an action, split by the parameter check
MalformedQueries ==
    [name \in ActionNames |-> {q \in AnyQueries(name) : Malformed(name, q)}]

WellFormedQueries ==
    [name \in ActionNames |-> {q \in AnyQueries(name) : ~Malformed(name, q)}]

\* C10: the admission checks run in the order parameter validation, lock
\* check, queue-depth check, dispatch: a request with a missing or empty
\* required parameter is rejected as {parameter, ...} also while the library
\* is locked, a well-formed request that is not lock-exempt is rejected as
\* {lock, locked} while locked whatever its identifiers, and in both cases
\* nothing is enqueued.  (Each case reads: the step is that rejection, or it
\* is not the serving of that request by its handler.)
C10_AdmissionOrder ==
    [][\A name \in ActionNames :
          last'.op = name =>
             /\ \A q \in MalformedQueries[name] :
                   \/ /\ last'.out \in {<<"parameter", "empty">>,
                                        <<"parameter", "undefined">>}
                      /\ UNCHANGED libvars
                   \/ ~Request("api", name, q)
             /\ (~running /\ name \in NonExempt) =>
                   \A q \in WellFormedQueries[name] :
                      \/ /\ last'.out = <<"lock", "locked">>
                         /\ UNCHANGED libvars
                      \/ ~Request("api", name, q)]_vars

\* C10 witness: a load with a missing parameter has been rejected for the
\* parameter while the library was locked
C10_Witness ==
    /\ last = [op |-> "load", out |-> <<"parameter", "undefined">>]
    /\ ~running
    /\ sole = Many

\* the deepest queue at which the model still has a queueing request to make:
\* every accepted load, unload or transfer queues four tasks
DeepestQueueAtRequest == 4 * (MaxRequests - 1)

\* C11: a command issued while the queue depth exceeds the configured
\* maximum is rejected with {taskqueue, full} and enqueues nothing, so the
\* queue cannot grow without bound.  The code configures no maximum; stated
\* here for the largest maximum that a request of the model can exceed, one
\* less than DeepestQueueAtRequest (a refutation for it refutes every smaller
\* maximum): a well-formed queueing request served by its handler while the
\* library is unlocked and the queue holds DeepestQueueAtRequest tasks or
\* more is rejected as {taskqueue, full} and changes nothing.
C11_QueueFullRejects ==
    [][\A name \in QueueingNames :
          (last'.op = name /\ running /\ Len(tasks) >= DeepestQueueAtRequest) =>
             \A q \in Queries(name) :
                \/ /\ last'.out = <<"taskqueue", "full">>
                   /\ UNCHANGED libvars
                \/ ~Request("api", name, q)]_vars

\* the commands that name locations
LocationNames == {"load", "unload", "transfer", "scan"}

\* the topology has a location of the parameter's kind with this identifier
Resolves(param, id) ==
    IF param = "drive" THEN id \in DOMAIN drives ELSE id \in DOMAIN slots

\* the requests that pass the parameter check and give an identifier that
\* does not resolve
UnresolvableQueries ==
    [name \in LocationNames |->
       {q \in WellFormedQueries[name] :
          /\ DOMAIN q = action_params(name)
          /\ \E k \in DOMAIN q : ~Resolves(k, q[k])}]

\* C12: for load, unload, transfer and scan, when an identifier of the
\* command does not resolve against the topology (also when the first
\* resolves and the second does not) the command fails with {slot, nosuch}
\* or {drive, nosuch} (UnknownLocation), and the task queue, the current task
\* and all other state are as before the command.  The request is one that
\* reaches the dispatch: served by its handler while unlocked, or by the
\* catch-all route.
C12_UnknownLocationFailsClosed ==
    [][\A name \in LocationNames :
          last'.op = name =>
             \A q \in UnresolvableQueries[name] : \A via \in {"api", "route"} :
                (via = "api" => running) =>
                   \/ /\ last'.out \in {<<"slot", "nosuch">>, <<"drive", "nosuch">>}
                      /\ UNCHANGED libvars
                   \/ ~Request(via, name, q)]_vars

\* C12 witness: a load whose slot resolves and whose drive does not has been
\* rejected while tasks of an earlier command were queued
C12_Witness ==
    /\ last = [op |-> "load", out |-> <<"drive", "nosuch">>]
    /\ running
    /\ tasks # <<>>

\* the task sequence the claim states for a command
CommandTasks(name, q) ==
    CASE name = "load" ->
           << <<"goto", q["slot"]>>, <<"eject", q["slot"]>>,
              <<"goto", q["drive"]>>, <<"enter", q["drive"]>> >>
      [] name = "unload" ->
           << <<"goto", q["drive"]>>, <<"eject", q["drive"]>>,
              <<"goto", q["slot"]>>, <<"enter", q["slot"]>> >>
      [] name = "transfer" ->
           << <<"goto", q["source"]>>, <<"eject", q["source"]>>,
              <<"goto", q["target"]>>, <<"enter", q["target"]>> >>
      [] name = "scan" ->
           << <<"goto", q["slot"]>>, <<"scan", q["slot"]>> >>

\* C13: each accepted load, unload, transfer or scan appends exactly its
\* fixed task sequence to the tail of the queue, in order and contiguously,
\* and leaves the tasks already queued (and the current task) as they were;
\* a tick takes a task from the head of the queue only, or empties the queue,
\* so the tasks of two commands are never interleaved.
C13_AtomicAppend ==
    [][/\ \A name \in LocationNames :
             (last'.op = name /\ last'.out = <<>>) =>
                \A q \in Queries(name) : \A via \in {"api", "route"} :
                   \/ /\ tasks' = tasks \o CommandTasks(name, q)
                      /\ task' = task
                   \/ ~Request(via, name, q)
       /\ last'.op = "move" =>
             \/ tasks' = tasks
             \/ tasks' = <<>>
             \/ /\ tasks # <<>>
                /\ task = NoTask
                /\ task' = Head(tasks)
                /\ tasks' = Tail(tasks)]_vars

\* C13 witness: a load was accepted after the first task of an earlier unload
\* had been taken from the queue: the unload's other three tasks are followed
\* by the load's four
C13_Witness ==
    /\ last = [op |-> "load", out |-> <<>>]
    /\ task = <<"goto", "d0001">>
    /\ tasks = << <<"eject", "d0001">>, <<"goto", "s0001">>, <<"enter", "s0001">>,
                  <<"goto", "s0000">>, <<"eject", "s0000">>,
                  <<"goto", "d0001">>, <<"enter", "d0001">> >>

\* the queue the claim states for a park: goto the home slot, then stop
ParkTasks == << <<"goto", "s0000">>, <<"stop", "picker">> >>

\* C14: immediately after an accepted park, whatever was in progress or
\* queued before, no task is current and the task queue is exactly
\* goto(s0000), stop; and the next task stepped after it is the park's own
\* goto: a tick that finds the library as the park left it takes goto(s0000)
\* from the queue, so no task that was current or queued before the park is
\* stepped afterwards.
C14_ParkPreempts ==
    /\ [](last = [op |-> "park", out |-> <<>>] =>
             (task = NoTask /\ tasks = ParkTasks))
    /\ [][(last = [op |-> "park", out |-> <<>>] /\ last'.op = "move") =>
             \/ (task' = <<"goto", "s0000">> /\ tasks' = Tail(ParkTasks))
             \/ UNCHANGED libvars]_vars

\* C14 witness: after a park made when an earlier command had brought the
\* picker to s0001, a tick has taken the park's goto
C14_Witness ==
    /\ last = [op |-> "move", out |-> <<"popleft">>]
    /\ task = <<"goto", "s0000">>
    /\ tasks = Tail(ParkTasks)
    /\ tape["picker"] = None
    /\ picker_x = Device("s0001").x
    /\ picker_y = Device("s0001").y

\* the library is parked: picker at the home slot, locked, nothing to do
Parked ==
    /\ picker_x = Device("s0000").x
    /\ picker_y = Device("s0000").y
    /\ ~running
    /\ tasks = <<>>
    /\ task = NoTask

\* C15: after a park accepted by park_handle, if ticks keep firing (the
\* sim_runner loop is alive) and no further command is issued, the library
\* eventually has the picker at the home slot s0000's coordinates, running
\* false, the queue empty and no task current.
C15_ParkParks == (sole = Closing("park") /\ alive) ~> Parked

\* C15 witness: parked after a closing park that found the picker holding a
\* tape away from the home slot
C15_Witness ==
    /\ sole = Closing("park")
    /\ Parked
    /\ tape["picker"] # None
    /\ last = [op |-> "move", out |-> <<"done", "stop", "picker">>]

\* C16: in every reachable state the inventory is sound: for every location
\* L but the picker, InventoryView[L] known-empty implies that L holds no
\* tape, and InventoryView[L] known-occupied implies that L holds a tape, the
\* tape of that id when an id is recorded.
C16_InventorySound ==
    \A L \in DeviceNames \ {"picker"} :
       /\ KnownEmpty(InventoryView(L)) => tape[L] = None
       /\ KnownOccupied(InventoryView(L)) =>
             /\ tape[L] # None
             /\ InventoryView(L) \in Tapes => tape[L] = InventoryView(L)

\* the {type, reason} pairs the claim states
StatedPairs ==
    {<<"parameter", "missing">>, <<"parameter", "empty">>, <<"lock", "locked">>,
     <<"taskqueue", "full">>, <<"drive", "notspecified">>, <<"slot", "notspecified">>,
     <<"drive", "nosuch">>, <<"slot", "nosuch">>, <<"method", "nosuch">>,
     <<"server", "internal">>}

\* the request just served was rejected with a {type, reason} pair (a
\* TypeError that leaves the catch-all route's handler is answered by the
\* web framework, with no pair)
RejectedWithPair ==
    /\ last.op \in RouteNames
    /\ last.out \notin {<<>>, <<"server", "unhandled">>}

\* C17: every rejection carries a {type, reason} pair of the stated set:
\* {parameter, missing} or {parameter, empty}, {lock, locked},
\* {taskqueue, full}, {drive|slot, notspecified}, {drive|slot, nosuch},
\* {method, nosuch}, {server, internal}.
C17_StatedPairsOnly == RejectedWithPair => last.out \in StatedPairs

Max(a, b) == IF a >= b THEN a ELSE b

\* the step being taken is a step of the goto task to d
GotoStep(d) ==
    /\ task = <<"goto", d>>
    /\ last'.op = "move"
    /\ last'.out[1] \in {"done", "notdone"}

\* C18 as stated: on each tick a goto step moves the picker on at most one
\* axis: when x differs from the target's it changes x by one unit toward
\* the target and leaves y unchanged; only when x matches and y differs does
\* it change y by one unit; so each moving tick takes one off |dx| + |dy|.
C18_OneAxisPerTick ==
    [][\A d \in DeviceNames :
          GotoStep(d) =>
             LET dx == picker_x - Device(d).x
                 dy == picker_y - Device(d).y
             IN  /\ dx # 0 =>
                       /\ Abs(picker_x' - Device(d).x) = Abs(dx) - 1
                       /\ picker_y' = picker_y
                 /\ (dx = 0 /\ dy # 0) =>
                       /\ Abs(picker_y' - Device(d).y) = Abs(dy) - 1
                       /\ picker_x' = picker_x
                 /\ (dx # 0 \/ dy # 0) =>
                       Abs(picker_x' - Device(d).x) + Abs(picker_y' - Device(d).y)
                          = Abs(dx) + Abs(dy) - 1]_vars

\* C18 amended: on each tick a goto step moves the picker one unit toward
\* the target on every axis whose coordinate differs from the target's, x
\* and y in the same tick when both differ, and leaves an axis that matches
\* unchanged; so each moving tick takes one off max(|dx|, |dy|), and the step
\* reports done exactly when both already match.
C18_EachAxisPerTick ==
    [][\A d \in DeviceNames :
          GotoStep(d) =>
             LET dx == picker_x - Device(d).x
                 dy == picker_y - Device(d).y
             IN  /\ dx # 0 => Abs(picker_x' - Device(d).x) = Abs(dx) - 1
                 /\ dx = 0 => picker_x' = picker_x
                 /\ dy # 0 => Abs(picker_y' - Device(d).y) = Abs(dy) - 1
                 /\ dy = 0 => picker_y' = picker_y
                 /\ (dx # 0 \/ dy # 0) =>
                       Max(Abs(picker_x' - Device(d).x), Abs(picker_y' - Device(d).y))
                          = Max(Abs(dx), Abs(dy)) - 1
                 /\ last'.out[1] = "done" <=> (dx = 0 /\ dy = 0)]_vars

\* C18 witness: the first step of a goto from the picker's starting place to
\* s0000 has moved it on both axes
C18_Witness ==
    /\ last = [op |-> "move", out |-> <<"notdone", "goto", "s0000">>]
    /\ picker_x = PickerObject.x + 1
    /\ picker_y = PickerObject.y - 1

\* C19: lock pre-empts the work in flight: after a lock followed later by an
\* unlock, with no command issued since, no tick moves the picker or steps
\* a task: every tick finds the library idle.
C19_LockAbandons ==
    [][(sole = Closing("unlock") /\ last'.op = "move") =>
          /\ last'.out = <<"idle">>
          /\ picker_x' = picker_x
          /\ picker_y' = picker_y
          /\ UNCHANGED tape]_vars

\* the messages of the LibraryError of BaseSlot.eject and BaseSlot.enter
FailureMessages ==
    {<<n, "is empty">> : n \in DeviceNames} \cup {<<n, "is not empty">> : n \in DeviceNames}

\* an eject or enter task is current and its step has failed with a domain
\* error: last_error holds the failure's message
FailedTask ==
    /\ task # NoTask
    /\ task[1] \in {"eject", "enter"}
    /\ last_error \in FailureMessages

\* C20: no failed task is retried automatically: after an eject or enter
\* step has failed with a domain error, no later tick steps that task again.
C20_NoRetry ==
    [][(FailedTask /\ last'.op = "move") =>
          last'.out[1] \notin {"raised", "done", "notdone"}]_vars

\* C20 witness: an eject step has failed, and a command reissued after it
\* has been accepted and queued
C20_Witness ==
    /\ FailedTask
    /\ task[1] = "eject"
    /\ last = [op |-> "unload", out |-> <<>>]
    /\ Len(tasks) > Len(CommandTasks("unload", [slot |-> "s0000", drive |-> "d0001"]))

\* C21: a tick while running is false is a no-op: the current task, the task
\* queue, the picker's position, every location's occupancy, the inventory
\* and last_error (and the rest of the library's state) are unchanged by it.
C21_LockedTickNoOp ==
    [][(~running /\ last'.op = "move") => UNCHANGED libvars]_vars

\* C21 witness: a tick has fired on a locked library that had a goto in
\* progress and tasks queued
C21_Witness ==
    /\ last.op = "move"
    /\ last.out[1] = "stopped"
    /\ ~running
    /\ task # NoTask
    /\ task[1] = "goto"
    /\ picker_x # Device(task[2]).x
    /\ tasks # <<>>

\* a load of slot S into drive D has just been accepted by an unlocked idle
\* library whose picker is empty, S holding tape t and D empty, while
\* sim_runner is looping
LoadAccepted(S, D, t) ==
    /\ sole = LastLoad([slot |-> S, drive |-> D])
    /\ last = [op |-> "load", out |-> <<>>]
    /\ alive
    /\ running
    /\ task = NoTask
    /\ tasks = CommandTasks("load", [slot |-> S, drive |-> D])
    /\ tape["picker"] = None
    /\ tape[S] = t
    /\ tape[D] = None

\* the state the load of S into D is to end in
Loaded(S, D, t) ==
    /\ tape[S] = None
    /\ tape[D] = t
    /\ tape["picker"] = None
    /\ picker_x = Device(D).x
    /\ picker_y = Device(D).y
    /\ KnownEmpty(InventoryView(S))
    /\ KnownOccupied(InventoryView(D))
    /\ task = NoTask
    /\ tasks = <<>>

\* C23: for every slot S holding a tape t and every empty drive D, after
\* load(S, D) is accepted by an unlocked idle library with an empty picker,
\* if ticks keep firing and no other command is issued, the library
\* eventually has S empty, D holding t, the picker empty and at D's
\* coordinate, InventoryView[S] known-empty, InventoryView[D] known-occupied,
\* and the executor idle.
C23_LoadCompletes ==
    \A t \in Tapes :
       (\E S \in DOMAIN slots : \E D \in DOMAIN drives : LoadAccepted(S, D, t))
          ~> (\E S \in DOMAIN slots : \E D \in DOMAIN drives :
                 /\ sole = LastLoad([slot |-> S, drive |-> D])
                 /\ Loaded(S, D, t))

\* C23 witness: the last load, of s0001 into d0000, has run to its end in a
\* library whose other drive an earlier load had filled
C23_Witness ==
    /\ sole = LastLoad([slot |-> "s0001", drive |-> "d0000"])
    /\ Loaded("s0001", "d0000", Device("s0001").tape)
    /\ tape["d0001"] = Device("s0000").tape

\* the locations that hold tape t
Holders(t) == {n \in DeviceNames : tape[n] = t}

\* C24: tapes are conserved: in every reachable state, after any sequence of
\* commands and ticks (ticks whose eject or enter step fails included), the
\* set of tape ids held across the slots, the drives and the picker equals
\* the initial set, and no tape id is held by two locations.
C24_TapesConserved ==
    /\ {tape[n] : n \in DeviceNames} \ {None} = Tapes
    /\ \A t \in Tapes : Cardinality(Holders(t)) = 1

\* C24 witness: a tick's enter step has failed and a tape of the initial
\* set is held by no location
C24_Witness ==
    /\ DomainFailure
    /\ task[1] = "enter"
    /\ \E t \in Tapes : Holders(t) = {}

\* the picker is at the coordinate of location n
PickerAt(n) ==
    /\ picker_x = Device(n).x
    /\ picker_y = Device(n).y

\* C25: whenever an eject, enter or scan step is executed on a target
\* location T, the picker's coordinate equals T's coordinate, under every
\* interleaving of commands (lock, unlock and park between ticks included)
\* with ticks.
C25_StepAtTarget ==
    [][(/\ last'.op = "move"
        /\ Len(last'.out) = 3
        /\ last'.out[2] \in {"eject", "enter", "scan"}) =>
          PickerAt(last'.out[3])]_vars

\* C25 witness: an enter step has just been executed on drive d0001, away
\* from where the picker started, with a later command's tasks queued
C25_Witness ==
    /\ last = [op |-> "move", out |-> <<"done", "enter", "d0001">>]
    /\ PickerAt("d0001")
    /\ ~(picker_x = InitLib.picker_x /\ picker_y = InitLib.picker_y)
    /\ tasks # <<>>

\* C26: the state query's busy flag reflects all outstanding work: in every
\* reachable state, busy false implies that no task is in the current-task
\* slot and the task queue is empty.
C26_BusyReflectsWork ==
    ~state_reply(Lib).busy => (task = NoTask /\ tasks = <<>>)

\* C26 witness: the state query answers busy false on an unlocked library
\* whose current task is the scan step of a scan command, dequeued and not
\* yet executed
C26_Witness ==
    /\ state_reply(Lib) = [locked |-> FALSE, busy |-> FALSE]
    /\ alive
    /\ task = <<"scan", "s0001">>

\* C27: the library stays operable after a domain failure: once an eject or
\* enter step has failed, ticks continue to be processed (sim_runner is
\* still looping), and a scan of an existing slot accepted afterwards while
\* the library is unlocked is eventually dequeued and executed to
\* completion, with no park from the caller.
C27_StaysOperable ==
    /\ [](DomainFailure => alive)
    /\ \A S \in DOMAIN slots :
          (sole = ScanAfter(S)) ~> (last = [op |-> "move", out |-> <<"done", "scan", S>>])

\* C27 witness: an eject step has failed, a scan of s0001 has been accepted
\* after it by the unlocked library and is queued, and sim_runner has
\* stopped looping
C27_Witness ==
    /\ sole = ScanAfter("s0001")
    /\ FailedTask
    /\ task[1] = "eject"
    /\ running
    /\ tasks # <<>>
    /\ tasks[Len(tasks)] = <<"scan", "s0001">>
    /\ ~alive

====
